---- MODULE Spec2Model ----
(***************************************************************************)
(* next-axis: the request pipeline (core), the hook chains (Interceptors), *)
(* the config merger and the client facade, as one state machine.          *)
(*                                                                         *)
(* One call is in flight at a time; every await of the source is a step    *)
(* boundary, so hook registration/ejection (and the timer, and the         *)
(* caller's own abort) interleave with the call exactly where the event    *)
(* loop lets them.                                                         *)
(***************************************************************************)
EXTENDS Integers, Sequences, FiniteSets, TLC

\* ---------------------------------------------------------------- bounds
\* registrations (use) on the two chains together
MaxHandlers == 2
\* calls of core made during one behaviour
MaxCalls == 1
\* registrations on the response chain where only the chains are at issue
MaxHookSlots == 3
\* calls of core made in a run that also calls the setters of the facade
MaxSetupCalls == 2

\* ------------------------------------------------ optional values (T | undefined)
None == <<>>
Some(x) == <<x>>
IsSome(o) == o # <<>>
Get(o) == o[1]
\* a ?? b
Coalesce(a, b) == IF IsSome(a) THEN a ELSE b

\* ------------------------------------------------------------- strings
\* A URL string is a sequence of tokens: a scheme token, a host token, "/"
\* and path segments.  The empty string is <<>>.
SchemeTokens == {"https://", "HTTPS://"}

\* /^https?:\/\//i.test(u)
isAbs(u) == Len(u) > 0 /\ u[1] \in SchemeTokens

endsWithSlash(u) == Len(u) > 0 /\ u[Len(u)] = "/"

\* rel.replace(/^\/+/, "")
RECURSIVE stripLeadingSlashes(_)
stripLeadingSlashes(u) ==
    IF Len(u) > 0 /\ u[1] = "/" THEN stripLeadingSlashes(Tail(u)) ELSE u

\* new URL(rel, base).toString() for a rel with no scheme and no leading
\* slash: a TypeError when base is not an absolute URL, otherwise the
\* serialised URL (scheme in lower case, rel resolved against the directory
\* of base).
RECURSIVE dirOf(_)
dirOf(u) == IF Len(u) = 0 \/ u[Len(u)] = "/" THEN u ELSE dirOf(SubSeq(u, 1, Len(u) - 1))

newURL(rel, base) ==
    IF ~isAbs(base) \/ Len(base) < 2 \/ base[2] = "/"
    THEN [ok |-> FALSE, v |-> <<>>]
    ELSE [ok |-> TRUE, v |-> dirOf(<<"https://">> \o Tail(base)) \o rel]

\* combine, never joining
combine_IgnoresBase(base, rel) == [ok |-> TRUE, v |-> rel]

\* combine(base, rel): rel when it is absolute, base when rel is empty, the
\* join otherwise
combine(base, rel) ==
    IF Len(rel) = 0 THEN [ok |-> TRUE, v |-> base]
    ELSE IF isAbs(rel) THEN [ok |-> TRUE, v |-> rel]
    ELSE LET cleanBase == IF endsWithSlash(base) THEN base ELSE base \o <<"/">>
             cleanRel == stripLeadingSlashes(rel)
         IN newURL(cleanRel, cleanBase)

\* ------------------------------------------------------------- headers
\* A HeadersInit is a plain object (kind "plain": its own entries, names as
\* written) or a Headers instance (kind "ref": an object of the heap).  A
\* Headers object is a set of <<lower-case name, value>> pairs.
Plain(entries) == [kind |-> "plain", entries |-> entries, id |-> 0]
Ref(id) == [kind |-> "ref", entries |-> {}, id |-> id]

\* names the Headers constructor rejects with a TypeError
InvalidNames == {"bad name"}

\* Headers normalises names to lower case
Lower(n) ==
    CASE n = "Content-Type" -> "content-type"
      [] n = "X-App" -> "x-app"
      [] n = "X-Trace" -> "x-trace"
      [] OTHER -> n

hset(h, k, v) == {e \in h : e[1] # Lower(k)} \cup {<<Lower(k), v>>}
hdelete(h, k) == {e \in h : e[1] # Lower(k)}
hhas(h, k) == \E e \in h : e[1] = Lower(k)
hget(h, k) == IF hhas(h, k) THEN Some((CHOOSE e \in h : e[1] = Lower(k))[2]) ELSE None

\* entries.forEach((v, k) => h.set(k, v))
RECURSIVE hsetAll(_, _)
hsetAll(h, entries) ==
    IF entries = {} THEN h
    ELSE LET e == CHOOSE x \in entries : TRUE
         IN hsetAll(hset(h, e[1], e[2]), entries \ {e})

\* h instanceof Headers ? h : new Headers(h ?? {}), on heap hp.
\* ok = FALSE: the constructor threw.
toHeaders(h, hp) ==
    IF IsSome(h) /\ Get(h).kind = "ref"
    THEN [ok |-> TRUE, id |-> Get(h).id, heap |-> hp]
    ELSE LET entries == IF IsSome(h) THEN Get(h).entries ELSE {}
         IN IF \E e \in entries : e[1] \in InvalidNames
            THEN [ok |-> FALSE, id |-> 0, heap |-> hp]
            ELSE [ok |-> TRUE, id |-> Len(hp) + 1,
                  heap |-> Append(hp, hsetAll({}, entries))]

\* ------------------------------------------------------ program state
VARIABLES
    defaults,   \* api.defaults: the ClientDefaults record
    heap,       \* the Headers objects created so far: id -> set of entries
    req,        \* interceptors.request.handlers
    res,        \* interceptors.response.handlers
    issued,     \* per chain, the handles use() has returned, in order
    call,       \* the in-flight call of core: its locals and its position
    ncalls      \* calls of core made so far

vars == <<defaults, heap, req, res, issued, call, ncalls>>

\* ------------------------------------------------------- hook chains
\* handlers is a sequence of slots; slot h + 1 holds the registration with
\* handle h, or Null once it is ejected.  A registration names what its
\* callbacks do; "none" is an absent callback.
Null == [onFulfilled |-> "null", onRejected |-> "null"]
Handler(f, r) == [onFulfilled |-> f, onRejected |-> r]

\* use(onFulfilled, onRejected): push, return length - 1
use(handlers, f, r) ==
    [handlers |-> Append(handlers, Handler(f, r)), id |-> Len(handlers)]

\* eject, removing the slot from the array
eject_Compacts(handlers, id) ==
    IF id + 1 \in DOMAIN handlers /\ handlers[id + 1] # Null
    THEN SubSeq(handlers, 1, id) \o SubSeq(handlers, id + 2, Len(handlers))
    ELSE handlers

\* eject(id): if (this.handlers[id]) this.handlers[id] = null
eject(handlers, id) ==
    IF id + 1 \in DOMAIN handlers /\ handlers[id + 1] # Null
    THEN [handlers EXCEPT ![id + 1] = Null]
    ELSE handlers

\* !h?.onFulfilled / !h?.onRejected
hasFulfilled(h) == h # Null /\ h.onFulfilled # "none"
hasRejected(h) == h # Null /\ h.onRejected # "none"

\* nextFulfilled, without the test that skips a slot
nextFulfilled_SkipsNothing(handlers, i) == i

\* The for-of loops of runFulfilled and runRejected: the first slot at or
\* after position i whose callback is present, Len + 1 when the loop ends.
RECURSIVE nextFulfilled(_, _)
nextFulfilled(handlers, i) ==
    IF i > Len(handlers) \/ hasFulfilled(handlers[i]) THEN i
    ELSE nextFulfilled(handlers, i + 1)

RECURSIVE nextRejected(_, _)
nextRejected(handlers, i) ==
    IF i > Len(handlers) \/ hasRejected(handlers[i]) THEN i
    ELSE nextRejected(handlers, i + 1)

\* ------------------------------------------------------ request config
\* A RequestConfig; an absent property is None.  marks stands for the
\* pass-through properties a request hook adds to the config.
EmptyConfig ==
    [url |-> None, baseURL |-> None, method |-> None, headers |-> None,
     data |-> None, timeout |-> None, signal |-> None,
     withCredentials |-> None, credentials |-> None, marks |-> <<>>]

\* String.prototype.toUpperCase on the method names
toUpperCase(m) ==
    CASE m = "get" -> "GET"
      [] m = "post" -> "POST"
      [] m = "put" -> "PUT"
      [] m = "patch" -> "PATCH"
      [] m = "delete" -> "DELETE"
      [] m = "head" -> "HEAD"
      [] m = "options" -> "OPTIONS"
      [] OTHER -> m

\* A request body: a plain object, one of the binary/form classes, or a
\* string.
BinaryKinds == {"FormData", "Blob", "ArrayBuffer", "URLSearchParams"}
Body(kind, v) == [kind |-> kind, v |-> v]

isPlainObj(body) == IsSome(body) /\ Get(body).kind = "object"

JSONstringify(b) ==
    Body("string",
         CASE b.v = "{id:1}" -> "{\"id\":1}"
           [] b.v = "{}" -> "{}"
           [] OTHER -> "null")

\* value.includes("application/json")
includesJson(v) == v \in {"application/json", "application/json; charset=utf-8"}

\* JS truthiness of an optional boolean / number / string
truthy(o) == IsSome(o) /\ Get(o) # FALSE
\* truthyNum, taking 0 for true
truthyNum_AnyNumber(o) == IsSome(o)
truthyNum(o) == IsSome(o) /\ Get(o) # 0
truthyStr(o) == IsSome(o) /\ Get(o) # <<>>

\* the entries toHeaders(h).forEach visits
headerEntries(h, hp) ==
    IF IsSome(h) /\ Get(h).kind = "ref"
    THEN [ok |-> TRUE, entries |-> hp[Get(h).id]]
    ELSE LET t == toHeaders(h, hp)
         IN IF t.ok THEN [ok |-> TRUE, entries |-> t.heap[t.id]]
            ELSE [ok |-> FALSE, entries |-> {}]

\* credentialsOf, looking at the per-call flag alone
credentialsOf_PerCallFlagOnly(d, cfg) ==
    IF truthy(cfg.withCredentials) THEN Some("include")
    ELSE Coalesce(cfg.credentials, d.credentials)

\* (cfg.withCredentials ?? defaults.withCredentials) ? "include"
\*     : (cfg.credentials ?? defaults.credentials)
credentialsOf(d, cfg) ==
    IF truthy(Coalesce(cfg.withCredentials, d.withCredentials))
    THEN Some("include")
    ELSE Coalesce(cfg.credentials, d.credentials)

\* core, from its entry to the construction of final: the merge of the
\* defaults d with the per-call config cfg, on heap hp.  ok = FALSE: a
\* Headers constructor threw.
merge(d, cfg, hp) ==
    LET th == toHeaders(d.headers, hp)
        pc == headerEntries(cfg.headers, hp)
    IN IF ~th.ok \/ ~pc.ok THEN [ok |-> FALSE, final |-> EmptyConfig, heap |-> hp]
       ELSE
       LET h1 == hsetAll(th.heap[th.id], pc.entries)
           body == cfg.data
           h2 == IF isPlainObj(body) /\ ~hhas(h1, "Content-Type")
                 THEN hset(h1, "Content-Type", "application/json")
                 ELSE h1
           ct == hget(h2, "Content-Type")
           body2 == IF isPlainObj(body) /\ IsSome(ct) /\ includesJson(Get(ct))
                    THEN Some(JSONstringify(Get(body)))
                    ELSE body
       IN [ok |-> TRUE,
           heap |-> [th.heap EXCEPT ![th.id] = h2],
           final |->
             [url |-> Coalesce(cfg.url, d.url),
              baseURL |-> Coalesce(cfg.baseURL, d.baseURL),
              timeout |-> Coalesce(cfg.timeout, d.timeout),
              signal |-> Coalesce(cfg.signal, d.signal),
              withCredentials |-> Coalesce(cfg.withCredentials, d.withCredentials),
              marks |-> cfg.marks,
              headers |-> Some(Ref(th.id)),
              data |-> body2,
              credentials |-> credentialsOf(d, cfg),
              method |->
                Some(toUpperCase(Get(Coalesce(Coalesce(cfg.method, d.method),
                                              Some("GET")))))]]

\* what final holds once core has built it: the entries of its Headers
\* object and its own properties, as values
resolved(final, hp) ==
    [headers |-> hp[Get(final.headers).id], baseURL |-> final.baseURL,
     url |-> final.url, method |-> final.method, data |-> final.data,
     credentials |-> final.credentials, timeout |-> final.timeout,
     signal |-> final.signal]

\* ------------------------------------------------- responses and errors
\* A JS value that a response hook passes on or a failure hook returns:
\* an object with the properties status, data and headers it has, or a
\* primitive.  data is a sequence: the decoded body, then the mark of every
\* hook that transformed it.
Response(status, data, headers) ==
    [kind |-> "object", status |-> Some(status), data |-> Some(data),
     headers |-> headers, prim |-> ""]
Prim(p) == [kind |-> "prim", status |-> None, data |-> None, headers |-> {}, prim |-> p]
\* the value a call resolves to when it resolves to a data field
DataValue(d) == [kind |-> "data", status |-> None, data |-> Some(d), headers |-> {}, prim |-> ""]

\* maybe && typeof maybe === "object" && "status" in maybe && "data" in maybe
responseShaped(v) == v.kind = "object" /\ IsSome(v.status) /\ IsSome(v.data)

\* An error: a raw Error (isAxiosError FALSE) or what makeError builds.
\* config TRUE: the error holds the reference to the call's final.
RawError(name, message) ==
    [isAxiosError |-> FALSE, name |-> name, message |-> message,
     status |-> None, response |-> None, config |-> FALSE]

makeError(msg, res_, status) ==
    [isAxiosError |-> TRUE, name |-> "Error", message |-> msg,
     status |-> status, response |-> res_, config |-> TRUE]

\* JSON.parse of a response body; None: a SyntaxError
JSONparse(b) ==
    CASE b = "{\"id\":1}" -> Some("{id:1}")
      [] b = "{\"error\":\"missing\"}" -> Some("{error:missing}")
      [] OTHER -> None

\* ------------------------------------------------------------ one call
\* The locals of core and where it is suspended:
\*   pc       "idle", or the await core is suspended at: "reqF" (a request
\*            success hook, or the return of req.runFulfilled), "fetch",
\*            "decode" (r.json() / r.text()), "resF" (a response success
\*            hook), "rej" (a response failure hook), or "done"
\*   idx      the slot of the hook awaited; fin: the loop of reqF is over
\*   thrown   the awaited hook threw (err) instead of returning (final / val)
\*   inTry    core has entered the try block around fetch
\*   timer    "none", "armed", "fired" or "cleared"; clears counts clearTimeout
\*   sent     what fetch was called with
\*   log      the trace of the chains for this call: every call of
\*            runFulfilled / runRejected, every callback invoked, with what
\*            it received and what it returned or threw, and how the run ended
Pending == [kind |-> "pending", value |-> None, error |-> None]
Resolved(v) == [kind |-> "resolved", value |-> Some(v), error |-> None]
Rejected(e) == [kind |-> "rejected", value |-> None, error |-> Some(e)]

IdleCall ==
    [pc |-> "idle", cfg |-> EmptyConfig, final |-> EmptyConfig, idx |-> 0,
     fin |-> FALSE, thrown |-> FALSE, inTry |-> FALSE, val |-> None,
     err |-> None, r |-> None, sent |-> None, timer |-> "none", clears |-> 0,
     acAborted |-> FALSE, extAborted |-> FALSE, log |-> <<>>,
     outcome |-> Pending, snap |-> None]

\* op: "runFulfilled" / "runRejected" (the run is called with in),
\* "onFulfilled" / "onRejected" (the callback of handle id is invoked with
\* in), "runFulfilled.return" / ".throw", "runRejected.return" / ".throw"
\* (the run ends)
Entry(chain, op, id, in, out, threw) ==
    [chain |-> chain, op |-> op, id |-> id, in |-> in, out |-> out, threw |-> threw]

\* What the registered callbacks do.
\* request success hook: "tag" adds a property to the config and returns
\* it, "method" and "timeout" return it with that property set, "throw"
\* throws
reqFulfilled(b, id, cfg) ==
    CASE b = "throw" ->
           [thrown |-> TRUE, v |-> cfg, e |-> RawError("Error", "request hook failed")]
      [] b = "method" ->
           [thrown |-> FALSE, v |-> [cfg EXCEPT !.method = Some("patch")],
            e |-> RawError("Error", "")]
      [] b = "timeout" ->
           [thrown |-> FALSE, v |-> [cfg EXCEPT !.timeout = Some(50)],
            e |-> RawError("Error", "")]
      [] OTHER ->
           [thrown |-> FALSE,
            v |-> [cfg EXCEPT !.marks = Append(@, "q" \o ToString(id))],
            e |-> RawError("Error", "")]

\* response success hook: "tag" transforms data and returns the response
resFulfilled(b, id, v) ==
    IF b = "throw"
    THEN [thrown |-> TRUE, v |-> v, e |-> RawError("Error", "response hook failed")]
    ELSE [thrown |-> FALSE,
          v |-> [v EXCEPT !.data = Some(Append(Get(@), "r" \o ToString(id)))],
          e |-> RawError("Error", "")]

\* failure hook: "resp" returns {status: 200, data: "fallback"}, "prim"
\* returns a string, "rethrow" throws the error it got, "throw" a new one
onRejected(b, id, e) ==
    CASE b = "resp" ->
           [thrown |-> FALSE, v |-> Response(200, <<"fallback">>, {}), e |-> e]
      [] b = "prim" -> [thrown |-> FALSE, v |-> Prim("fallback"), e |-> e]
      [] b = "rethrow" -> [thrown |-> TRUE, v |-> Prim(""), e |-> e]
      [] OTHER ->
           [thrown |-> TRUE, v |-> Prim(""),
            e |-> RawError("Error", "failure hook " \o ToString(id) \o " failed")]

\* settle, without the finally block
settle_LeavesTimer(c, outcome) == [c EXCEPT !.pc = "done", !.outcome = outcome]

\* core leaves: the promise settles; the finally of the try block clears
\* the timer when there is one
settle(c, outcome) ==
    LET clear == c.inTry /\ c.timer # "none"
    IN [c EXCEPT !.pc = "done", !.outcome = outcome,
                 !.timer = IF clear THEN "cleared" ELSE @,
                 !.clears = IF clear THEN @ + 1 ELSE @]

\* recovered, returning what res.runRejected returned as it is
recovered_Raw(v) == v

\* core's return of what res.runRejected returned: its data when it is
\* response-shaped
recovered(v) == IF responseShaped(v) THEN DataValue(Get(v.data)) ELSE v

\* the loop of req.runFulfilled from slot i to its next await
runFulfilledReq(c, i) ==
    LET j == nextFulfilled(req, i)
    IN IF j > Len(req)
       THEN [c EXCEPT !.idx = j, !.fin = TRUE,
                      !.log = Append(@, Entry("req", "runFulfilled.return", 0, None,
                                          Some(c.final), None))]
       ELSE LET o == reqFulfilled(req[j].onFulfilled, j - 1, c.final)
            IN [c EXCEPT !.idx = j, !.thrown = o.thrown,
                         !.final = o.v,
                         !.err = IF o.thrown THEN Some(o.e) ELSE @,
                         !.log = Append(@, Entry("req", "onFulfilled", j - 1, Some(c.final),
                                                 IF o.thrown THEN None ELSE Some(o.v),
                                                 IF o.thrown THEN Some(o.e) ELSE None))]

\* runRejectedFrom, never replacing the error by what a callback threw
runRejectedFrom_KeepsFirstError(c, i) ==
    LET j == nextRejected(res, i)
    IN IF j > Len(res)
       THEN settle([c EXCEPT !.log = Append(@, Entry("res", "runRejected.throw", 0, None, None,
                                                   c.err))],
                   Rejected(Get(c.err)))
       ELSE LET o == onRejected(res[j].onRejected, j - 1, Get(c.err))
            IN [c EXCEPT !.pc = "rej", !.idx = j, !.thrown = o.thrown,
                         !.val = IF o.thrown THEN @ ELSE Some(o.v),
                         !.log = Append(@, Entry("res", "onRejected", j - 1, c.err,
                                                 IF o.thrown THEN None ELSE Some(o.v),
                                                 IF o.thrown THEN Some(o.e) ELSE None))]

\* the loop of res.runRejected from slot i to its next await, or to its
\* throw, which core passes on
runRejectedFrom(c, i) ==
    LET j == nextRejected(res, i)
    IN IF j > Len(res)
       THEN settle([c EXCEPT !.log = Append(@, Entry("res", "runRejected.throw", 0, None, None,
                                                   c.err))],
                   Rejected(Get(c.err)))
       ELSE LET o == onRejected(res[j].onRejected, j - 1, Get(c.err))
            IN [c EXCEPT !.pc = "rej", !.idx = j, !.thrown = o.thrown,
                         !.val = IF o.thrown THEN @ ELSE Some(o.v),
                         !.err = IF o.thrown THEN Some(o.e) ELSE @,
                         !.log = Append(@, Entry("res", "onRejected", j - 1, c.err,
                                                 IF o.thrown THEN None ELSE Some(o.v),
                                                 IF o.thrown THEN Some(o.e) ELSE None))]

\* res.runRejected(e), to its first await
runRejected(c, e) ==
    runRejectedFrom([c EXCEPT !.err = Some(e), !.thrown = FALSE,
                              !.log = Append(@, Entry("res", "runRejected", 0, Some(e),
                                                      None, None))], 1)

\* runFulfilledRes, dropping what the hooks return
runFulfilledRes_KeepsInput(c, i) ==
    LET j == nextFulfilled(res, i)
    IN IF j > Len(res)
       THEN settle([c EXCEPT !.log = Append(@, Entry("res", "runFulfilled.return", 0, None,
                                                   c.val, None))],
                   Resolved(DataValue(Get(Get(c.val).data))))
       ELSE LET o == resFulfilled(res[j].onFulfilled, j - 1, Get(c.val))
            IN [c EXCEPT !.pc = "resF", !.idx = j, !.thrown = o.thrown,
                         !.err = IF o.thrown THEN Some(o.e) ELSE @,
                         !.log = Append(@, Entry("res", "onFulfilled", j - 1, c.val,
                                                 IF o.thrown THEN None ELSE Some(o.v),
                                                 IF o.thrown THEN Some(o.e) ELSE None))]

\* the loop of res.runFulfilled from slot i to its next await, or to
\* core's return of processed.data
runFulfilledRes(c, i) ==
    LET j == nextFulfilled(res, i)
    IN IF j > Len(res)
       THEN settle([c EXCEPT !.log = Append(@, Entry("res", "runFulfilled.return", 0, None,
                                                   c.val, None))],
                   Resolved(DataValue(Get(Get(c.val).data))))
       ELSE LET o == resFulfilled(res[j].onFulfilled, j - 1, Get(c.val))
            IN [c EXCEPT !.pc = "resF", !.idx = j, !.thrown = o.thrown,
                         !.val = IF o.thrown THEN @ ELSE Some(o.v),
                         !.err = IF o.thrown THEN Some(o.e) ELSE @,
                         !.log = Append(@, Entry("res", "onFulfilled", j - 1, c.val,
                                                 IF o.thrown THEN None ELSE Some(o.v),
                                                 IF o.thrown THEN Some(o.e) ELSE None))]

\* catch, giving every error it builds the status 0
catch_StatusZero(c, e) ==
    runRejected(c, IF e.isAxiosError THEN e
                   ELSE makeError(e.message, e.response, Some(0)))

\* catch, treating an AbortError as any other error
catch_IgnoresAbort(c, e) ==
    runRejected(c, IF e.isAxiosError THEN e
                   ELSE makeError(e.message, e.response,
                                  IF IsSome(e.response) THEN Get(e.response).status
                                  ELSE None))

\* the catch of the try block around fetch, the decoding, the status check
\* and res.runFulfilled
catch(c, e) ==
    LET isTimeout == e.name = "AbortError"
        timeoutText == IF IsSome(c.final.timeout) THEN ToString(Get(c.final.timeout))
                       ELSE "undefined"
        normalized ==
            IF e.isAxiosError THEN e
            ELSE makeError(IF isTimeout THEN "timeout of " \o timeoutText \o "ms exceeded"
                           ELSE e.message,
                           e.response,
                           IF isTimeout THEN Some(0)
                           ELSE IF IsSome(e.response) THEN Get(e.response).status ELSE None)
    IN runRejected(c, normalized)

\* catchRequestHook, offering the failure to the request chain's own
\* failure callbacks first
catchRequestHook_OwnChain(c) ==
    LET j == nextRejected(req, 1)
        e == makeError(Get(c.err).message, None, None)
        c2 == [c EXCEPT !.log = Append(@, Entry("req", "runFulfilled.throw", 0, None, None,
                                                c.err))]
    IN IF j > Len(req) THEN runRejected(c2, e)
       ELSE LET o == onRejected(req[j].onRejected, j - 1, e)
            IN IF o.thrown THEN runRejected(c2, o.e)
               ELSE settle([c2 EXCEPT !.log = Append(@, Entry("req", "onRejected", j - 1,
                                                              Some(e), Some(o.v), None))],
                           Resolved(recovered(o.v)))

\* catchRequestHook, handing over the hook's own error
catchRequestHook_RawError(c) ==
    runRejected([c EXCEPT !.log = Append(@, Entry("req", "runFulfilled.throw", 0, None, None,
                                                  c.err))],
                Get(c.err))

\* the catch around req.runFulfilled
catchRequestHook(c) ==
    runRejected([c EXCEPT !.log = Append(@, Entry("req", "runFulfilled.throw", 0, None, None,
                                                  c.err))],
                makeError(Get(c.err).message, None, None))

\* core after req.runFulfilled has returned: the base join, the headers,
\* the timer and the call of fetch.  combine and toHeaders are outside any
\* try block: what they throw leaves core as it is.
afterRequestHooks(c, d, hp) ==
    LET base == Coalesce(c.final.baseURL, d.baseURL)
        url == Get(Coalesce(Coalesce(c.final.url, c.cfg.url), Some(<<>>)))
        joined == IF truthyStr(base) /\ url # <<>> THEN combine(Get(base), url)
                  ELSE [ok |-> TRUE, v |-> url]
        th == toHeaders(c.final.headers, hp)
    IN IF ~joined.ok
       THEN [call |-> settle(c, Rejected(RawError("TypeError", "Invalid URL"))),
             heap |-> hp]
       ELSE IF ~th.ok
       THEN [call |-> settle([c EXCEPT !.final.url = Some(joined.v)],
                             Rejected(RawError("TypeError", "Invalid header name"))),
             heap |-> hp]
       ELSE
       LET final2 == [c.final EXCEPT !.url = Some(joined.v), !.headers = Some(Ref(th.id))]
           ac == ~IsSome(final2.signal) /\ truthyNum(final2.timeout)
       IN [heap |-> th.heap,
           call |-> [c EXCEPT !.pc = "fetch", !.fin = FALSE, !.inTry = TRUE,
                              !.final = final2,
                              !.timer = IF ac THEN "armed" ELSE "none",
                              !.sent = Some([url |-> joined.v,
                                             method |-> final2.method,
                                             headers |-> th.heap[th.id],
                                             body |-> final2.data,
                                             credentials |-> final2.credentials,
                                             signal |-> IF IsSome(final2.signal)
                                                        THEN final2.signal
                                                        ELSE IF ac THEN Some("ac")
                                                        ELSE None])]]

\* the signal fetch was given has been aborted
fetchAborted(c) ==
    /\ IsSome(c.sent)
    /\ \/ Get(c.sent).signal = Some("ac") /\ c.acAborted
       \/ Get(c.sent).signal = Some("ext") /\ c.extAborted

\* the headers core reads from r.headers
responseHeaders(r) == IF IsSome(r.ct) THEN {<<"content-type", Get(r.ct)>>} ELSE {}

\* decodeBody, falling back to null whatever the content type
decodeBody_NullFallback(r) ==
    LET ct == IF IsSome(r.ct) THEN Get(r.ct) ELSE ""
    IN IF r.streamOk /\ (~includesJson(ct) \/ IsSome(JSONparse(r.body)))
       THEN (IF includesJson(ct) THEN Get(JSONparse(r.body)) ELSE r.body)
       ELSE "<null>"

\* ct.includes("application/json") ? await r.json() : await r.text(), with
\* the fallback of the catch around it
decodeBody(r) ==
    LET ct == IF IsSome(r.ct) THEN Get(r.ct) ELSE ""
    IN IF includesJson(ct)
       THEN IF r.streamOk /\ IsSome(JSONparse(r.body))
            THEN Get(JSONparse(r.body)) ELSE "<null>"
       ELSE IF r.streamOk THEN r.body ELSE ""

\* afterDecode, rejecting only the 5xx statuses
afterDecode_OnlyServerErrors(c, parsed) ==
    LET r == Get(c.r)
        wrapped == Response(r.status, <<parsed>>, responseHeaders(r))
    IN IF r.status >= 500
       THEN catch(c, makeError("Request failed with status code " \o ToString(r.status),
                               Some(wrapped), Some(r.status)))
       ELSE runFulfilledRes([c EXCEPT !.val = Some(wrapped),
                                      !.log = Append(@, Entry("res", "runFulfilled", 0,
                                                              Some(wrapped), None, None))], 1)

\* core from the decoded body on: the wrapped response, the status check,
\* the response success chain
afterDecode(c, parsed) ==
    LET r == Get(c.r)
        wrapped == Response(r.status, <<parsed>>, responseHeaders(r))
    IN IF r.status < 200 \/ r.status >= 300
       THEN catch(c, makeError("Request failed with status code " \o ToString(r.status),
                               Some(wrapped), Some(r.status)))
       ELSE runFulfilledRes([c EXCEPT !.val = Some(wrapped),
                                      !.log = Append(@, Entry("res", "runFulfilled", 0,
                                                              Some(wrapped), None, None))], 1)

\* --------------------------------------------------------- the facade
\* get/delete/head/options(u, c) and post/put/patch(u, b, c): the config
\* they hand to core
shortcut(m, u, c) == [c EXCEPT !.url = Some(u), !.method = Some(m)]
shortcutBody(m, u, b, c) == [c EXCEPT !.url = Some(u), !.method = Some(m), !.data = b]

\* ------------------------------------------------------------- inputs
BaseOk == <<"HTTPS://", "api", "/", "v1">>
BaseRelative == <<"/", "api">>
UrlRel == <<"/", "posts">>
UrlAbs == <<"https://", "other", "/", "x">>

\* createHttp(init): the base URL of the defaults
InitBases == {Some(BaseOk)}

\* the per-call configs of the calls made: get(u, c), with a relative path
\* (on the default base, or on a per-call base that is itself relative) or
\* an absolute URL, without and with a timeout and a caller's signal
CallConfigs ==
    {shortcut("GET", uc[1], [c EXCEPT !.baseURL = uc[2]]) :
        uc \in {<<UrlRel, None>>, <<UrlAbs, None>>, <<UrlRel, Some(BaseRelative)>>},
        c \in {EmptyConfig,
                [EmptyConfig EXCEPT !.timeout = Some(50)],
                [EmptyConfig EXCEPT !.timeout = Some(50), !.signal = Some("ext")]}}

\* the registrations made
ReqHandlers == {Handler("tag", "none"), Handler("throw", "none")}
ResHandlers ==
    {Handler("tag", "none"), Handler("throw", "none"), Handler("none", "resp"),
     Handler("none", "prim"), Handler("none", "rethrow"), Handler("none", "throw")}

\* what the transport answers
TransportResponse(status, ct, body, streamOk) ==
    [status |-> status, ct |-> ct, body |-> body, streamOk |-> streamOk]
Responses ==
    {TransportResponse(200, Some("application/json"), "{\"id\":1}", TRUE),
     TransportResponse(200, Some("text/plain"), "oops", FALSE),
     TransportResponse(204, None, "", TRUE),
     TransportResponse(404, Some("application/json"), "{\"error\":\"missing\"}", TRUE)}

\* ------------------------------------------------------------- actions
\* createHttp(init)
Init ==
    /\ \E b \in InitBases :
         defaults = [EmptyConfig EXCEPT !.method = Some("GET"),
                                        !.headers = Some(Plain({})),
                                        !.baseURL = b]
    /\ heap = <<>>
    /\ req = <<>>
    /\ res = <<>>
    /\ issued = [req |-> <<>>, res |-> <<>>]
    /\ call = IdleCall
    /\ ncalls = 0

\* interceptors.request.use(f, r)
UseRequest(h) ==
    /\ LET u == use(req, h.onFulfilled, h.onRejected)
       IN /\ req' = u.handlers
          /\ issued' = [issued EXCEPT !.req = Append(@, u.id)]
    /\ UNCHANGED <<defaults, heap, res, call, ncalls>>

\* interceptors.response.use(f, r)
UseResponse(h) ==
    /\ LET u == use(res, h.onFulfilled, h.onRejected)
       IN /\ res' = u.handlers
          /\ issued' = [issued EXCEPT !.res = Append(@, u.id)]
    /\ UNCHANGED <<defaults, heap, req, call, ncalls>>

\* interceptors.request.eject(id)
EjectRequest(id) ==
    /\ req' = eject(req, id)
    /\ UNCHANGED <<defaults, heap, res, issued, call, ncalls>>

\* interceptors.response.eject(id)
EjectResponse(id) ==
    /\ res' = eject(res, id)
    /\ UNCHANGED <<defaults, heap, req, issued, call, ncalls>>

\* api.setBaseURL(u)
SetBaseURL(u) ==
    /\ defaults' = [defaults EXCEPT !.baseURL = Some(u)]
    /\ UNCHANGED <<heap, req, res, issued, call, ncalls>>

\* api.setHeader(k, v); the names used are valid
SetHeader(k, v) ==
    /\ LET t == toHeaders(defaults.headers, heap)
       IN /\ heap' = [t.heap EXCEPT ![t.id] = hset(@, k, v)]
          /\ defaults' = [defaults EXCEPT !.headers = Some(Ref(t.id))]
    /\ UNCHANGED <<req, res, issued, call, ncalls>>

\* api.removeHeader(k)
RemoveHeader(k) ==
    /\ LET t == toHeaders(defaults.headers, heap)
       IN /\ heap' = [t.heap EXCEPT ![t.id] = hdelete(@, k)]
          /\ defaults' = [defaults EXCEPT !.headers = Some(Ref(t.id))]
    /\ UNCHANGED <<req, res, issued, call, ncalls>>

\* core(cfg), to its first await
Request(cfg) ==
    /\ call.pc \in {"idle", "done"}
    /\ ncalls' = ncalls + 1
    /\ LET m == merge(defaults, cfg, heap)
           c == [IdleCall EXCEPT !.cfg = cfg, !.final = m.final, !.pc = "reqF",
                                 !.snap = IF m.ok THEN Some(resolved(m.final, m.heap))
                                          ELSE None,
                                 !.log = <<Entry("req", "runFulfilled", 0, Some(m.final),
                                                 None, None)>>]
       IN IF ~m.ok
          THEN /\ call' = settle([c EXCEPT !.log = <<>>],
                                  Rejected(RawError("TypeError", "Invalid header name")))
               /\ heap' = heap
          ELSE /\ call' = runFulfilledReq(c, 1)
               /\ heap' = m.heap
    /\ UNCHANGED <<defaults, req, res, issued>>

\* a request success hook, or req.runFulfilled, has settled
ReqResume ==
    /\ call.pc = "reqF"
    /\ IF call.thrown
       THEN call' = catchRequestHook(call) /\ heap' = heap
       ELSE IF ~call.fin
       THEN call' = runFulfilledReq(call, call.idx + 1) /\ heap' = heap
       ELSE LET a == afterRequestHooks(call, defaults, heap)
            IN call' = a.call /\ heap' = a.heap
    /\ UNCHANGED <<defaults, req, res, issued, ncalls>>

\* FetchResolve, decoding whatever the status
FetchResolve_AlwaysDecodes(r) ==
    /\ call.pc = "fetch"
    /\ ~fetchAborted(call)
    /\ call' = [call EXCEPT !.r = Some(r), !.pc = "decode"]
    /\ UNCHANGED <<defaults, heap, req, res, issued, ncalls>>

\* fetch resolves with the response r
FetchResolve(r) ==
    /\ call.pc = "fetch"
    /\ ~fetchAborted(call)
    /\ LET c == [call EXCEPT !.r = Some(r)]
       IN call' = IF r.status \in {204, 205} THEN afterDecode(c, "<null>")
                  ELSE [c EXCEPT !.pc = "decode"]
    /\ UNCHANGED <<defaults, heap, req, res, issued, ncalls>>

\* fetch rejects: the network failed
FetchReject ==
    /\ call.pc = "fetch"
    /\ ~fetchAborted(call)
    /\ call' = catch(call, RawError("TypeError", "fetch failed"))
    /\ UNCHANGED <<defaults, heap, req, res, issued, ncalls>>

\* fetch rejects: its signal was aborted
FetchAbort ==
    /\ call.pc = "fetch"
    /\ fetchAborted(call)
    /\ call' = catch(call, RawError("AbortError", "This operation was aborted"))
    /\ UNCHANGED <<defaults, heap, req, res, issued, ncalls>>

\* setTimeout(() => ac.abort(), final.timeout) fires
TimerFire ==
    /\ call.timer = "armed"
    /\ call' = [call EXCEPT !.timer = "fired", !.acAborted = TRUE]
    /\ UNCHANGED <<defaults, heap, req, res, issued, ncalls>>

\* the caller aborts the signal it passed
ExternalAbort ==
    /\ call.pc \notin {"idle", "done"}
    /\ IsSome(call.cfg.signal)
    /\ ~call.extAborted
    /\ call' = [call EXCEPT !.extAborted = TRUE]
    /\ UNCHANGED <<defaults, heap, req, res, issued, ncalls>>

\* r.json() / r.text() settles
DecodeResume ==
    /\ call.pc = "decode"
    /\ call' = afterDecode(call, decodeBody(Get(call.r)))
    /\ UNCHANGED <<defaults, heap, req, res, issued, ncalls>>

\* ResResume, running the failure callbacks registered after the hook that
\* failed
ResResume_FromFailingSlot ==
    /\ call.pc = "resF"
    /\ call' = IF call.thrown
               THEN LET e == makeError(Get(call.err).message, None, None)
                    IN runRejectedFrom(
                         [call EXCEPT !.err = Some(e), !.thrown = FALSE,
                                      !.log = @ \o <<Entry("res", "runFulfilled.throw", 0,
                                                           None, None, call.err),
                                                     Entry("res", "runRejected", 0, Some(e),
                                                           None, None)>>],
                         call.idx + 1)
               ELSE runFulfilledRes(call, call.idx + 1)
    /\ UNCHANGED <<defaults, heap, req, res, issued, ncalls>>

\* a response success hook has settled
ResResume ==
    /\ call.pc = "resF"
    /\ call' = IF call.thrown
               THEN catch([call EXCEPT !.log = Append(@, Entry("res", "runFulfilled.throw", 0,
                                                               None, None, call.err))],
                          Get(call.err))
               ELSE runFulfilledRes(call, call.idx + 1)
    /\ UNCHANGED <<defaults, heap, req, res, issued, ncalls>>

\* a response failure hook has settled
RejResume ==
    /\ call.pc = "rej"
    /\ call' = IF call.thrown THEN runRejectedFrom(call, call.idx + 1)
               ELSE settle([call EXCEPT !.log = Append(@, Entry("res", "runRejected.return", 0,
                                                                None, call.val, None))],
                           Resolved(recovered(Get(call.val))))
    /\ UNCHANGED <<defaults, heap, req, res, issued, ncalls>>

Next ==
    \/ \E h \in ReqHandlers : Len(req) + Len(res) < MaxHandlers /\ UseRequest(h)
    \/ \E h \in ResHandlers : Len(req) + Len(res) < MaxHandlers /\ UseResponse(h)
    \/ \E id \in 0..MaxHandlers : EjectRequest(id)
    \/ \E id \in 0..MaxHandlers : EjectResponse(id)
    \/ \E cfg \in CallConfigs : ncalls < MaxCalls /\ Request(cfg)
    \/ ReqResume
    \/ \E r \in Responses : FetchResolve(r)
    \/ FetchReject
    \/ FetchAbort
    \/ TimerFire
    \/ ExternalAbort
    \/ DecodeResume
    \/ ResResume
    \/ RejResume

Spec == Init /\ [][Next]_vars

\* The hook chains on their own: registrations and ejections at any moment
\* of calls of one config.
HookConfig == shortcut("GET", UrlAbs, EmptyConfig)
HookResponses ==
    {TransportResponse(200, Some("application/json"), "{\"id\":1}", TRUE),
     TransportResponse(404, Some("application/json"), "{\"error\":\"missing\"}", TRUE)}

NextHooks ==
    \/ \E h \in ResHandlers : Len(res) < MaxHookSlots /\ UseResponse(h)
    \/ \E id \in 0..MaxHookSlots : EjectResponse(id)
    \/ ncalls < MaxCalls /\ Request(HookConfig)
    \/ ReqResume
    \/ \E r \in HookResponses : FetchResolve(r)
    \/ DecodeResume
    \/ ResResume
    \/ RejResume

SpecHooks == Init /\ [][NextHooks]_vars

\* The merge on its own: clients made with different defaults, calls of
\* request(cfg) over the methods, bodies, headers, credentials settings,
\* paths and bases, at most one request hook, which sets the method.
BaseOther == <<"https://", "cdn", "/", "v2">>
MergeDefaults ==
    {[EmptyConfig EXCEPT !.method = Some("GET"), !.headers = Some(Plain({})),
                         !.baseURL = Some(BaseOk)],
     [EmptyConfig EXCEPT !.method = Some("put"), !.headers = Some(Plain({})),
                         !.baseURL = Some(BaseOk),
                         !.withCredentials = Some(TRUE),
                         !.credentials = Some("same-origin")],
     [EmptyConfig EXCEPT !.method = Some("GET"),
                         !.headers = Some(Plain({<<"X-App", "1">>})),
                         !.credentials = Some("omit")]}

InitMerge ==
    /\ defaults \in MergeDefaults
    /\ heap = <<>>
    /\ req = <<>>
    /\ res = <<>>
    /\ issued = [req |-> <<>>, res |-> <<>>]
    /\ call = IdleCall
    /\ ncalls = 0

MergeConfigs ==
    {[EmptyConfig EXCEPT !.url = Some(ub[1]), !.baseURL = ub[2], !.method = m,
                         !.data = d, !.headers = h,
                         !.withCredentials = wc[1], !.credentials = wc[2]] :
        ub \in {<<UrlRel, None>>, <<UrlAbs, None>>, <<UrlRel, Some(BaseOther)>>},
        m \in {None, Some("post"), Some("DELETE")},
        d \in {None, Some(Body("object", "{id:1}")), Some(Body("FormData", "form")),
               Some(Body("string", "text"))},
        h \in {None, Some(Plain({<<"Content-Type", "text/plain">>})),
               Some(Plain({<<"content-type", "application/json; charset=utf-8">>}))},
        wc \in {<<None, None>>, <<Some(TRUE), Some("omit")>>,
                <<None, Some("same-origin")>>, <<Some(FALSE), None>>}}

MergeResponses ==
    {TransportResponse(200, Some("application/json"), "{\"id\":1}", TRUE),
     TransportResponse(204, Some("application/json"), "{\"id\":1}", TRUE),
     TransportResponse(205, Some("text/plain"), "oops", TRUE)}

NextMerge ==
    \/ Len(req) < 1 /\ UseRequest(Handler("method", "none"))
    \/ \E cfg \in MergeConfigs : ncalls < MaxCalls /\ Request(cfg)
    \/ ReqResume
    \/ \E r \in MergeResponses : FetchResolve(r)
    \/ DecodeResume

SpecMerge == InitMerge /\ [][NextMerge]_vars

\* The timer and the signals: calls without a timeout, with the timeout 0
\* and with a timeout of 50 ms, without and with a signal of the caller's,
\* at most one request hook, which sets a timeout.
TimerConfigs ==
    {shortcut("GET", UrlAbs, [EmptyConfig EXCEPT !.timeout = t, !.signal = sg]) :
        t \in {None, Some(0), Some(50)}, sg \in {None, Some("ext")}}

NextTimer ==
    \/ Len(req) < 1 /\ UseRequest(Handler("timeout", "none"))
    \/ \E cfg \in TimerConfigs : ncalls < MaxCalls /\ Request(cfg)
    \/ ReqResume
    \/ \E r \in HookResponses : FetchResolve(r)
    \/ FetchReject
    \/ FetchAbort
    \/ TimerFire
    \/ ExternalAbort
    \/ DecodeResume

SpecTimer == Init /\ [][NextTimer]_vars

\* The decoding: responses whose body reads and parses, whose body is not
\* JSON though the content type says so, and whose stream fails, of a 2xx
\* and of a non-2xx status; response hooks that transform and that recover.
DecodeResponses ==
    {TransportResponse(st, ct, b[1], b[2]) :
        st \in {200, 404},
        ct \in {Some("application/json"), Some("text/plain"), None},
        b \in {<<"{\"id\":1}", TRUE>>, <<"oops", TRUE>>, <<"{\"id\":1}", FALSE>>}}

DecodeHandlers == {Handler("tag", "none"), Handler("none", "resp")}

NextDecode ==
    \/ \E h \in DecodeHandlers : Len(res) < MaxHandlers /\ UseResponse(h)
    \/ ncalls < MaxCalls /\ Request(HookConfig)
    \/ ReqResume
    \/ \E r \in DecodeResponses : FetchResolve(r)
    \/ DecodeResume
    \/ ResResume
    \/ RejResume

SpecDecode == Init /\ [][NextDecode]_vars

\* Registrations with both callbacks: on the request chain a failure
\* callback next to or without a success callback, on the response chain a
\* success hook that fails with its own failure callback, and failure
\* callbacks registered before and after it.
PairedReqHandlers == {Handler("throw", "resp"), Handler("tag", "prim"), Handler("none", "resp")}
PairedResHandlers ==
    {Handler("throw", "prim"), Handler("none", "rethrow"), Handler("tag", "none"),
     Handler("none", "resp")}

NextPaired ==
    \/ \E h \in PairedReqHandlers : Len(req) < 1 /\ UseRequest(h)
    \/ \E h \in PairedResHandlers : Len(res) < MaxHandlers /\ UseResponse(h)
    \/ ncalls < MaxCalls /\ Request(HookConfig)
    \/ ReqResume
    \/ \E r \in HookResponses : FetchResolve(r)
    \/ FetchReject
    \/ DecodeResume
    \/ ResResume
    \/ RejResume

SpecPaired == Init /\ [][NextPaired]_vars

\* The facade's setters between and during calls: a client made by
\* createHttp() with no init, one request hook at most, calls without and
\* with per-call headers and a body.
InitNoBase ==
    /\ defaults = [EmptyConfig EXCEPT !.method = Some("GET"), !.headers = Some(Plain({}))]
    /\ heap = <<>>
    /\ req = <<>>
    /\ res = <<>>
    /\ issued = [req |-> <<>>, res |-> <<>>]
    /\ call = IdleCall
    /\ ncalls = 0

SetterBases == {BaseOk}
SetterHeaders == {<<"X-App", "1">>, <<"X-App", "2">>}
SetupConfigs ==
    {shortcut("GET", UrlRel, EmptyConfig),
     shortcutBody("POST", UrlRel, Some(Body("object", "{id:1}")),
                  [EmptyConfig EXCEPT !.headers = Some(Plain({<<"X-Trace", "t">>}))])}

NextSetup ==
    \/ \E u \in SetterBases : SetBaseURL(u)
    \/ \E kv \in SetterHeaders : SetHeader(kv[1], kv[2])
    \/ \E kv \in SetterHeaders : RemoveHeader(kv[1])
    \/ Len(req) < 1 /\ UseRequest(Handler("tag", "none"))
    \/ \E cfg \in SetupConfigs : ncalls < MaxSetupCalls /\ Request(cfg)
    \/ ReqResume
    \/ \E r \in HookResponses : FetchResolve(r)
    \/ DecodeResume

SpecSetup == InitNoBase /\ [][NextSetup]_vars

\* A transport that never answers: fetch settles only when its signal is
\* aborted.  The event loop runs a due timer, delivers the rejection of an
\* aborted fetch and resumes a call whose awaited callback has settled.
NextHang ==
    \/ \E h \in ReqHandlers : Len(req) + Len(res) < MaxHandlers /\ UseRequest(h)
    \/ \E h \in ResHandlers : Len(req) + Len(res) < MaxHandlers /\ UseResponse(h)
    \/ \E id \in 0..MaxHandlers : EjectRequest(id)
    \/ \E id \in 0..MaxHandlers : EjectResponse(id)
    \/ \E cfg \in CallConfigs : ncalls < MaxCalls /\ Request(cfg)
    \/ ReqResume
    \/ FetchAbort
    \/ TimerFire
    \/ ExternalAbort
    \/ RejResume

LiveSpec ==
    /\ Init /\ [][NextHang]_vars
    /\ WF_vars(TimerFire) /\ WF_vars(FetchAbort) /\ WF_vars(RejResume)

\* ------------------------------------------------------------- claims
\* the entries of the call's trace made by op on chain
Trace(chain, op) == SelectSeq(call.log, LAMBDA e : e.chain = chain /\ e.op = op)

\* a response failure hook has been invoked for this call
FailureHookRan == Len(Trace("res", "onRejected")) > 0

Done == call.pc = "done"
Success(status) == status >= 200 /\ status < 300

\* the response core builds from what the transport answered
Normalized(r) ==
    Response(r.status,
             <<IF r.status \in {204, 205} THEN "<null>" ELSE decodeBody(r)>>,
             responseHeaders(r))

\* C1: a call whose transport response has a status outside [200,300), and
\* for which no response failure hook runs, never resolves: it raises the
\* structured error with that status, the normalized response (its decoded
\* body as data) and the message "Request failed with status code {status}".
C1_NonSuccessStatusRaises ==
    (IsSome(call.r) /\ ~Success(Get(call.r).status) /\ ~FailureHookRan) =>
        /\ call.outcome.kind # "resolved"
        /\ Done =>
             /\ call.outcome.kind = "rejected"
             /\ LET e == Get(call.outcome.error)
                    r == Get(call.r)
                IN /\ e.isAxiosError
                   /\ e.config
                   /\ e.status = Some(r.status)
                   /\ e.message = "Request failed with status code " \o ToString(r.status)
                   /\ e.response = Some(Normalized(r))
                   /\ (r.status = 404 /\ r.body = "{\"error\":\"missing\"}")
                         => Get(e.response).data = Some(<<"{error:missing}">>)

C1_Witness ==
    /\ Done /\ IsSome(call.r) /\ Get(call.r).status = 404 /\ ~FailureHookRan
    /\ call.outcome.kind = "rejected"
    /\ Get(call.outcome.error).status = Some(404)
    /\ Get(Get(call.outcome.error).response).data = Some(<<"{error:missing}">>)

\* the response success hooks that returned, and those that threw
Returned(chain, op) == SelectSeq(Trace(chain, op), LAMBDA e : IsSome(e.out))
Threw(chain, op) == SelectSeq(Trace(chain, op), LAMBDA e : IsSome(e.threw))

\* the data of the response the last response success hook returned, the
\* decoded body when none returned one
LastSuccessData ==
    LET t == Returned("res", "onFulfilled")
    IN IF Len(t) = 0 THEN Get(Normalized(Get(call.r)).data)
       ELSE Get(Get(t[Len(t)].out).data)

\* the response success chain is run on the full normalized response
SuccessChainInput ==
    /\ \A i \in DOMAIN call.log :
         (call.log[i].chain = "res" /\ call.log[i].op = "runFulfilled")
            => /\ call.log[i].in = Some(Normalized(Get(call.r)))
               /\ Get(call.log[i].in).status = Some(Get(call.r).status)
    /\ Len(Trace("res", "onFulfilled")) > 0
          => Trace("res", "onFulfilled")[1].in = Some(Normalized(Get(call.r)))
    /\ (Done /\ IsSome(call.r) /\ Success(Get(call.r).status))
          => Len(Trace("res", "runFulfilled")) = 1

\* C2 as stated: every call whose transport response has a 2xx status
\* resolves to the data of the response returned by the last response
\* success hook (the decoded body when there is none).
C2_Original ==
    /\ SuccessChainInput
    /\ (Done /\ IsSome(call.r) /\ Success(Get(call.r).status))
          => call.outcome = Resolved(DataValue(LastSuccessData))

\* C2, amended: for a 2xx response the response success chain receives the
\* full normalized response, with the transport's status; if no response
\* success hook fails, the call resolves to the data of the response the
\* last response success hook returned (the decoded body when there is none).
C2_SuccessResolvesToData ==
    /\ SuccessChainInput
    /\ (Done /\ IsSome(call.r) /\ Success(Get(call.r).status)
         /\ Len(Threw("res", "onFulfilled")) = 0)
          => call.outcome = Resolved(DataValue(LastSuccessData))

C2_Witness ==
    /\ Done /\ IsSome(call.r) /\ Get(call.r).status = 200
    /\ Len(Returned("res", "onFulfilled")) = 2
    /\ call.outcome = Resolved(DataValue(<<"{id:1}", "r0", "r1">>))

\* ------------------------------------------------- the chains' traces
Handlers(chain) == IF chain = "req" THEN req ELSE res
LastEntry == call.log[Len(call.log)]

\* the slot after the last one the run of op on chain has visited
NextSlot(chain, op) ==
    LET t == Trace(chain, op)
    IN IF Len(t) = 0 THEN 1 ELSE t[Len(t)].id + 2

\* A step that invokes a success callback invokes the first present one
\* after those already visited; a step that ends the loop leaves no present
\* one unvisited.
FulfilledVisitsPresent(chain) ==
    LET t == Trace(chain, "onFulfilled")
        from == NextSlot(chain, "onFulfilled")
        hs == Handlers(chain)
    IN /\ Len(Trace(chain, "onFulfilled")') = Len(t) + 1 =>
            LET e == (Trace(chain, "onFulfilled")')[Len(t) + 1]
            IN /\ e.id + 1 \in DOMAIN hs
               /\ hasFulfilled(hs[e.id + 1])
               /\ \A k \in from..e.id : ~hasFulfilled(hs[k])
       /\ Len(Trace(chain, "runFulfilled.return")') = Len(Trace(chain, "runFulfilled.return")) + 1
            => \A k \in from..Len(hs) : ~hasFulfilled(hs[k])

\* the same for the failure callbacks of the response chain
RejectedVisitsPresent ==
    LET t == Trace("res", "onRejected")
        from == NextSlot("res", "onRejected")
    IN /\ Len(Trace("res", "onRejected")') = Len(t) + 1 =>
            LET e == (Trace("res", "onRejected")')[Len(t) + 1]
            IN /\ e.id + 1 \in DOMAIN res
               /\ hasRejected(res[e.id + 1])
               /\ \A k \in from..e.id : ~hasRejected(res[k])
       /\ Len(Trace("res", "runRejected.throw")') = Len(Trace("res", "runRejected.throw")) + 1
            => \A k \in from..Len(res) : ~hasRejected(res[k])

\* the success callbacks of a run are invoked in registration order, each
\* with what the one before returned, the first with the run's input; the
\* run returns what the last one returned (its input when there is none),
\* or throws what a callback threw, and a callback that threw is the last
FulfilledChained(chain) ==
    LET t == Trace(chain, "onFulfilled")
        run == Trace(chain, "runFulfilled")
        ret == Trace(chain, "runFulfilled.return")
        thr == Trace(chain, "runFulfilled.throw")
    IN /\ \A k \in 1..(Len(t) - 1) :
            /\ t[k].id < t[k + 1].id
            /\ IsSome(t[k].out)
            /\ t[k + 1].in = t[k].out
       /\ Len(t) > 0 => Len(run) = 1 /\ t[1].in = run[1].in
       /\ Len(ret) > 0 =>
            /\ Len(ret) = 1 /\ Len(thr) = 0 /\ Len(run) = 1
            /\ ret[1].out = IF Len(t) = 0 THEN run[1].in ELSE t[Len(t)].out
       /\ Len(thr) > 0 =>
            /\ Len(thr) = 1 /\ Len(t) > 0
            /\ IsSome(thr[1].threw)
            /\ thr[1].threw = t[Len(t)].threw

\* a success callback that threw: the very next thing the call does is to
\* leave the run with that failure
FulfilledFailsAtOnce ==
    (Len(call.log) > 0 /\ LastEntry.op = "onFulfilled" /\ IsSome(LastEntry.threw)
     /\ call.log' # call.log)
       => /\ Len(call.log') > Len(call.log)
          /\ call.log'[Len(call.log) + 1] =
                Entry(LastEntry.chain, "runFulfilled.throw", 0, None, None, LastEntry.threw)

\* C3: runFulfilled invokes the present success callbacks of the
\* non-ejected registrations in registration order, each with the output of
\* the one before; a callback that fails ends the run at once with its
\* failure; a run with no callback returns its input.
C3_SuccessChainOrder ==
    /\ [](FulfilledChained("req") /\ FulfilledChained("res"))
    /\ [][/\ FulfilledVisitsPresent("req")
          /\ FulfilledVisitsPresent("res")
          /\ FulfilledFailsAtOnce]_vars

C3_Witness ==
    LET t == Trace("res", "onFulfilled")
    IN /\ Len(res) = 3 /\ res[2] = Null
       /\ Len(t) = 2 /\ t[1].id = 0 /\ t[2].id = 2
       /\ IsSome(t[2].threw)
       /\ Len(Trace("res", "runFulfilled.throw")) = 1

\* the failure callbacks of a run are invoked in registration order, the
\* first with the run's error, each later one with what the one before
\* threw; a callback that returned is the last and the run returns its
\* value; a run that throws throws what the last callback threw, the run's
\* own error when no callback was invoked
RejectedChained ==
    LET t == Trace("res", "onRejected")
        run == Trace("res", "runRejected")
        ret == Trace("res", "runRejected.return")
        thr == Trace("res", "runRejected.throw")
    IN /\ \A k \in 1..(Len(t) - 1) :
            /\ t[k].id < t[k + 1].id
            /\ IsSome(t[k].threw)
            /\ t[k + 1].in = t[k].threw
       /\ Len(t) > 0 => Len(run) = 1 /\ t[1].in = run[1].in
       /\ Len(ret) > 0 =>
            /\ Len(ret) = 1 /\ Len(thr) = 0 /\ Len(t) > 0
            /\ IsSome(ret[1].out)
            /\ ret[1].out = t[Len(t)].out
       /\ Len(thr) > 0 =>
            /\ Len(thr) = 1 /\ Len(ret) = 0 /\ Len(run) = 1
            /\ IsSome(thr[1].threw)
            /\ thr[1].threw = IF Len(t) = 0 THEN run[1].in ELSE t[Len(t)].threw

\* a failure callback that returned: the very next thing the call does is
\* to leave the run with that value
RejectedReturnsAtOnce ==
    (Len(call.log) > 0 /\ LastEntry.op = "onRejected" /\ IsSome(LastEntry.out)
     /\ call.log' # call.log)
       => /\ Len(call.log') > Len(call.log)
          /\ call.log'[Len(call.log) + 1] =
                Entry("res", "runRejected.return", 0, None, LastEntry.out, None)

\* C4: runRejected visits the present failure callbacks of the non-ejected
\* registrations in registration order; the first one that returns ends the
\* run with its value; one that fails replaces the error for the callbacks
\* after it; when none returns the run re-raises the last error, the
\* original error when no failure callback is registered.
C4_FailureChainOrder ==
    /\ []RejectedChained
    /\ [][RejectedVisitsPresent /\ RejectedReturnsAtOnce]_vars

C4_Witness ==
    LET t == Trace("res", "onRejected")
    IN /\ Len(t) = 2
       /\ IsSome(t[1].threw) /\ t[1].threw # t[1].in
       /\ t[2].in = t[1].threw /\ IsSome(t[2].out)
       /\ Len(Trace("res", "runRejected.return")) = 1
       /\ Len(res) = 3 /\ hasRejected(res[3])

\* C5: when the response failure chain returns a value the call resolves,
\* to that value's data field when the value is an object with a status and
\* a data field and to the value itself otherwise; when the chain returns
\* nothing the call raises the error the chain ended with.
C5_RecoveredCallResolves ==
    (Done /\ Len(Trace("res", "runRejected")) > 0) =>
        LET ret == Trace("res", "runRejected.return")
            thr == Trace("res", "runRejected.throw")
        IN IF Len(ret) > 0
           THEN LET v == Get(ret[1].out)
                IN call.outcome =
                     IF v.kind = "object" /\ IsSome(v.status) /\ IsSome(v.data)
                     THEN Resolved(DataValue(Get(v.data)))
                     ELSE Resolved(v)
           ELSE /\ Len(thr) = 1
                /\ call.outcome = Rejected(Get(thr[1].threw))

C5_Witness ==
    /\ Done
    /\ IsSome(call.r) /\ Get(call.r).status = 404
    /\ Len(Trace("res", "runRejected.return")) = 1
    /\ call.outcome = Resolved(DataValue(<<"fallback">>))

\* a registry changes only by one slot appended or one slot made inert
RegistryStep(chain) ==
    LET hs == Handlers(chain)
        hs2 == Handlers(chain)'
    IN hs2 # hs =>
         \/ /\ Len(hs2) = Len(hs) + 1
            /\ SubSeq(hs2, 1, Len(hs)) = hs
            /\ issued'[chain] = Append(issued[chain], Len(hs))
         \/ /\ Len(hs2) = Len(hs)
            /\ issued'[chain] = issued[chain]
            /\ \E k \in DOMAIN hs :
                 /\ hs[k] # Null /\ hs2[k] = Null
                 /\ \A m \in DOMAIN hs \ {k} : hs2[m] = hs[m]

\* eject(h) makes the slot of handle h inert and touches no other
EjectStep ==
    \A id \in 0..MaxHookSlots :
        EjectResponse(id) =>
            /\ Len(res') = Len(res)
            /\ \A k \in DOMAIN res :
                 res'[k] = IF k = id + 1 THEN Null ELSE res[k]

\* a callback a run invokes belongs to a slot that is not inert, and the run
\* passes over no slot whose callback is present
InvokesNonEjected(chain) ==
    LET n == Len(SelectSeq(call.log, LAMBDA e : e.chain = chain))
        log2 == SelectSeq(call.log', LAMBDA e : e.chain = chain)
    IN \A k \in (n + 1)..Len(log2) :
         log2[k].op \in {"onFulfilled", "onRejected"} =>
            /\ log2[k].id + 1 \in DOMAIN Handlers(chain)
            /\ Handlers(chain)[log2[k].id + 1] # Null

\* the handles use has returned are 0, 1, 2, ... in the order of the calls,
\* and handle h names slot h + 1 of the registry
HandlesIncrease(chain) ==
    /\ Len(issued[chain]) = Len(Handlers(chain))
    /\ \A k \in DOMAIN issued[chain] : issued[chain][k] = k - 1

\* C6: whatever use and eject calls are made, between or during runs, the
\* handles use returns are strictly increasing and never reused, eject(h)
\* makes exactly the slot of handle h inert and moves no other slot, and a
\* run invokes the callbacks of the slots that are not inert, in
\* registration order.
C6_HandlesStable ==
    /\ [](HandlesIncrease("req") /\ HandlesIncrease("res"))
    /\ [][/\ RegistryStep("req") /\ RegistryStep("res")
          /\ EjectStep
          /\ InvokesNonEjected("req") /\ InvokesNonEjected("res")
          /\ FulfilledVisitsPresent("res")]_vars

C6_Witness ==
    LET t == Trace("res", "onFulfilled")
    IN /\ Done
       /\ issued.res = <<0, 1, 2>>
       /\ Len(res) = 3 /\ res[2] = Null /\ res[1] # Null /\ res[3] # Null
       /\ Len(t) = 2 /\ t[1].id = 0 /\ t[2].id = 2
       /\ call.outcome = Resolved(DataValue(<<"{id:1}", "r0", "r2">>))

\* the error of the catch block for a call its own timer aborted
TimeoutError(ms) == makeError("timeout of " \o ToString(ms) \o "ms exceeded", None, Some(0))

\* fetch has been called for a call with a timeout and no signal of the
\* caller's
DispatchedWithTimeout ==
    /\ call.pc = "fetch"
    /\ IsSome(call.final.timeout) /\ Get(call.final.timeout) > 0
    /\ ~IsSome(call.final.signal)

\* C7: a call with a timeout and no signal of the caller's, whose transport
\* never answers, is eventually over; when no response failure hook has run
\* for it, it has raised the structured error of status 0 whose message is
\* "timeout of {timeout}ms exceeded".
C7_TimeoutEventuallyRaises ==
    DispatchedWithTimeout ~>
        (Done /\ (FailureHookRan
                  \/ /\ IsSome(call.final.timeout)
                     /\ call.outcome = Rejected(TimeoutError(Get(call.final.timeout)))))

C7_Witness ==
    /\ Done
    /\ call.acAborted
    /\ ~FailureHookRan
    /\ call.outcome = Rejected(TimeoutError(50))
    /\ call.outcome.error[1].isAxiosError

\* the call has raised a failure that arose after the merge
FailedAfterMerge ==
    Done /\ call.outcome.kind = "rejected" /\ Len(Trace("req", "runFulfilled")) = 1

\* C8: for a call that fails after the merge, res.runRejected is run exactly
\* once, never zero times and never twice.
C8_FailureChainRunsOnce ==
    /\ Len(Trace("res", "runRejected")) <= 1
    /\ FailedAfterMerge => Len(Trace("res", "runRejected")) = 1

\* C9: a call that is over has resolved to a value or raised an error that
\* carries the structured-error marker and the request configuration.
C9_NeverRawException ==
    Done =>
        \/ call.outcome.kind = "resolved"
        \/ /\ call.outcome.kind = "rejected"
           /\ Get(call.outcome.error).isAxiosError
           /\ Get(call.outcome.error).config

\* core has created a timer for the call: fetch was given the signal of
\* core's own AbortController
TimerCreated == IsSome(call.sent) /\ Get(call.sent).signal = Some("ac")

\* C10 as stated: on every exit path, those before dispatch included, the
\* timer of the call is cleared exactly once.
C10_Original == Done => call.clears = 1

\* C10: a timer exists only for a dispatched call with a timeout and no
\* signal of the caller's; it is cleared exactly once, when the call is
\* over, on every exit path after dispatch; a call that leaves before
\* dispatch, or has no timer, clears none; no call that is over leaves a
\* timer armed.
C10_TimerClearedOnce ==
    /\ call.clears <= 1
    /\ call.timer # "none" => TimerCreated
    /\ Done => /\ call.timer \in {"none", "cleared"}
               /\ call.clears = IF TimerCreated THEN 1 ELSE 0
    /\ ~Done => call.clears = 0

C10_Witness ==
    /\ Done
    /\ TimerCreated
    /\ call.acAborted
    /\ call.timer = "cleared" /\ call.clears = 1
    /\ call.outcome.kind = "rejected"

\* ------------------------------------------------ defaults and calls
InFlight == call.pc \notin {"idle", "done"}

\* the URL core sends for a path and the base the merge resolved
JoinedUrl(base, url) ==
    LET u == Get(Coalesce(url, Some(<<>>)))
    IN IF truthyStr(base) /\ u # <<>> THEN combine(Get(base), u).v ELSE u

\* the entries of the headers the defaults hold
DefaultHeaders ==
    IF Get(defaults.headers).kind = "ref" THEN heap[Get(defaults.headers).id]
    ELSE hsetAll({}, Get(defaults.headers).entries)

\* C11: a call that has been merged keeps its own resolved config: while it
\* is in flight the headers of its config are those the merge resolved,
\* and what it sends to the transport is the headers and the URL (the path
\* joined to the base) that the merge resolved, whatever setBaseURL,
\* setHeader or removeHeader did since.
C11_CallKeepsResolvedConfig ==
    IsSome(call.snap) =>
        LET m == Get(call.snap)
        IN /\ InFlight => heap[Get(call.final.headers).id] = m.headers
           /\ IsSome(call.sent) =>
                /\ Get(call.sent).headers = m.headers
                /\ Get(call.sent).url = JoinedUrl(m.baseURL, m.url)

\* the names of the headers a call supplies itself, the Content-Type that
\* auto-JSON adds included
OwnHeaderNames(cfg) ==
    {Lower(e[1]) : e \in (IF IsSome(cfg.headers) THEN Get(cfg.headers).entries ELSE {})}
        \cup (IF isPlainObj(cfg.data) THEN {"content-type"} ELSE {})

\* C12: the defaults hold what the setters left: the default base is absent
\* or one setBaseURL was given, every default header is one setHeader was
\* given, and a call sends no header other than those and its own.
C12_DefaultsOnlyFromSetters ==
    /\ defaults.baseURL \in {None} \cup {Some(u) : u \in SetterBases}
    /\ DefaultHeaders \subseteq {<<Lower(kv[1]), kv[2]>> : kv \in SetterHeaders}
    /\ IsSome(call.sent) =>
          \A e \in Get(call.sent).headers :
              \/ e[1] \in OwnHeaderNames(call.cfg)
              \/ e \in {<<Lower(kv[1]), kv[2]>> : kv \in SetterHeaders}

\* ---------------------------------------------------------- the merge
\* the enumerated methods
Methods == {"GET", "POST", "PUT", "PATCH", "DELETE", "HEAD", "OPTIONS"}

\* C13: the method handed to the transport is upper case and one of the
\* enumerated methods, whatever the per-call method, the default method
\* and the request hooks.
C13_MethodEnumerated ==
    IsSome(call.sent) =>
        /\ IsSome(Get(call.sent).method)
        /\ Get(Get(call.sent).method) \in Methods

\* the Content-Type the defaults and the call set between them
PresetContentType ==
    hget(hsetAll(DefaultHeaders,
                 IF IsSome(call.cfg.headers) THEN Get(call.cfg.headers).entries ELSE {}),
         "Content-Type")

\* C14: a per-call body that is a structured value is resolved to its JSON
\* text, with Content-Type application/json when none was set and the
\* Content-Type that was set otherwise; a binary or form body is resolved to
\* itself and no Content-Type is added.
C14_BodyEncoded ==
    IsSome(call.snap) =>
        LET m == Get(call.snap)
            d == call.cfg.data
        IN /\ isPlainObj(d) =>
                /\ m.data = Some(JSONstringify(Get(d)))
                /\ hget(m.headers, "Content-Type") =
                      IF IsSome(PresetContentType) THEN PresetContentType
                      ELSE Some("application/json")
           /\ (IsSome(d) /\ Get(d).kind \in BinaryKinds) =>
                /\ m.data = d
                /\ hget(m.headers, "Content-Type") = PresetContentType

\* C15 as stated: the resolved credentials policy is "include" when the
\* per-call withCredentials flag is set; when the per-call flag is absent it
\* is the per-call credentials setting, the default one when that is absent.
C15_Original ==
    IsSome(call.snap) =>
        LET m == Get(call.snap)
        IN /\ call.cfg.withCredentials = Some(TRUE) => m.credentials = Some("include")
           /\ call.cfg.withCredentials = None =>
                m.credentials = Coalesce(call.cfg.credentials, defaults.credentials)

\* C15: the resolved credentials policy is "include" when the withCredentials
\* flag in force, the per-call one or else the default one, is true, whatever
\* the credentials settings; otherwise it is the per-call credentials
\* setting, the default one when that is absent.
C15_CredentialsResolved ==
    IsSome(call.snap) =>
        LET flag == IF IsSome(call.cfg.withCredentials) THEN call.cfg.withCredentials
                    ELSE defaults.withCredentials
            setting == IF IsSome(call.cfg.credentials) THEN call.cfg.credentials
                       ELSE defaults.credentials
        IN Get(call.snap).credentials =
             IF flag = Some(TRUE) THEN Some("include") ELSE setting

C15_Witness ==
    /\ IsSome(call.snap)
    /\ defaults.withCredentials = Some(TRUE)
    /\ call.cfg.withCredentials = None
    /\ call.cfg.credentials = Some("same-origin")
    /\ Get(call.snap).credentials = Some("include")

\* base and path joined: the base with its scheme in lower case, one slash,
\* the path without its leading slashes
AbsoluteJoin(base, path) ==
    <<"https://">> \o Tail(base)
        \o (IF base[Len(base)] = "/" THEN <<>> ELSE <<"/">>)
        \o SelectSeq(path, LAMBDA t : t # "/")

\* C16: the URL sent to the transport is the path itself when the path is
\* an absolute URL, whatever the bases; when the path is relative and a base
\* is set, per call or else in the defaults, it is the absolute URL that
\* joins that base and the path.
C16_UrlResolved ==
    IsSome(call.sent) =>
        LET path == Get(call.cfg.url)
            base == IF IsSome(call.cfg.baseURL) THEN call.cfg.baseURL ELSE defaults.baseURL
            url == Get(call.sent).url
        IN IF isAbs(path) THEN url = path
           ELSE IsSome(base) => url = AbsoluteJoin(Get(base), path) /\ isAbs(url)

C16_Witness ==
    /\ IsSome(call.sent)
    /\ defaults.baseURL = Some(BaseOk)
    /\ call.cfg.baseURL = Some(BaseOther)
    /\ call.cfg.url = Some(UrlRel)
    /\ Get(call.sent).url = <<"https://", "cdn", "/", "v2", "/", "posts">>

\* C17: for a transport response of status 204 or 205 the body is never
\* decoded, and the data of the normalized response is null, whatever the
\* content type.
C17_NoContentNotDecoded ==
    (IsSome(call.r) /\ Get(call.r).status \in {204, 205}) =>
        /\ call.pc # "decode"
        /\ Len(Trace("res", "runFulfilled")) = 1
        /\ Trace("res", "runFulfilled")[1].in =
              Some(Response(Get(call.r).status, <<"<null>">>, responseHeaders(Get(call.r))))
        /\ Done => call.outcome = Resolved(DataValue(<<"<null>">>))

C17_Witness ==
    /\ Done
    /\ Get(call.r).status = 204
    /\ Get(call.r).ct = Some("application/json")
    /\ Get(call.r).body = "{\"id\":1}"
    /\ call.outcome = Resolved(DataValue(<<"<null>">>))

\* -------------------------------------------------- failures handed over
\* a request hook has failed for this call
RequestHookFailed == Len(Threw("req", "onFulfilled")) > 0

\* C18: when a request hook fails the transport is not called and no timer
\* is armed; the response failure chain is run once, on a structured error
\* with no status and no response that carries the message of the hook's
\* failure and the config; the call ends as that run does: it resolves to
\* what the run returned (its data field when it is response-shaped), or
\* raises what the run re-raised.
C18_RequestHookFailure ==
    RequestHookFailed =>
        LET hookError == Get(Threw("req", "onFulfilled")[1].threw)
            run == Trace("res", "runRejected")
            ret == Trace("res", "runRejected.return")
            thr == Trace("res", "runRejected.throw")
        IN /\ call.sent = None /\ call.r = None
           /\ call.timer = "none" /\ call.clears = 0
           /\ call.pc \in {"reqF", "rej", "done"}
           /\ call.pc # "reqF" =>
                /\ Len(run) = 1
                /\ run[1].in = Some([isAxiosError |-> TRUE, name |-> "Error",
                                      message |-> hookError.message,
                                      status |-> None, response |-> None,
                                      config |-> TRUE])
           /\ Done =>
                IF Len(ret) = 1
                THEN LET v == Get(ret[1].out)
                     IN call.outcome =
                          Resolved(IF responseShaped(v) THEN DataValue(Get(v.data)) ELSE v)
                ELSE Len(thr) = 1 /\ call.outcome = Rejected(Get(thr[1].threw))

C18_Witness ==
    /\ RequestHookFailed
    /\ Done
    /\ Trace("res", "runRejected")[1].in =
          Some(makeError("request hook failed", None, None))
    /\ Len(Trace("res", "onRejected")) = 1
    /\ call.outcome = Resolved(Prim("fallback"))

\* why the step that hands an error to the response failure chain does so,
\* read from where the call is: a hook it awaited has failed, the signal
\* fetch was given is aborted, fetch failed by itself, or the status check
\* after the decoding failed
Cause ==
    CASE call.pc \in {"reqF", "resF"} -> "hook"
      [] call.pc = "fetch" /\ fetchAborted(call) -> "cancellation"
      [] call.pc = "fetch" /\ ~fetchAborted(call) -> "transport"
      [] OTHER -> "status"

\* the step hands the error e to the response failure chain
HandsOver(e) ==
    LET n == Len(Trace("res", "runRejected"))
        t == Trace("res", "runRejected")'
    IN /\ InFlight
       /\ Len(t) = n + 1
       /\ t[n + 1].in = Some(e)

HandedOverShape(e) ==
    /\ e.isAxiosError /\ e.config
    /\ IsSome(e.response) <=> Cause = "status"
    /\ e.status = Some(0) <=> Cause = "cancellation"
    /\ Cause = "status" =>
          LET r == Get(call.r)
          IN /\ ~Success(r.status)
             /\ e = makeError("Request failed with status code " \o ToString(r.status),
                              Some(Normalized(r)), Some(r.status))
    /\ Cause = "cancellation" => call.acAborted \/ call.extAborted
    /\ Cause = "transport" =>
          /\ e.status = None
          /\ e.message = "fetch failed"
    /\ Cause = "hook" =>
          /\ e.status = None
          /\ e.message = Get(call.err).message

SignalGiven(f) ==
    IF IsSome(f.signal) THEN f.signal
    ELSE IF TimerCreated THEN Some("ac")
    ELSE None

\* C20 as stated: core creates its own AbortController and arms a timer
\* exactly when the config the request hooks returned has no signal and has
\* a timeout.
C20_Original ==
    IsSome(call.sent) =>
        (TimerCreated <=> (~IsSome(call.final.signal) /\ IsSome(call.final.timeout)))

\* C20: core creates its own AbortController and arms a timer exactly when
\* the config the request hooks returned has no signal and has a timeout
\* other than 0; fetch is given the caller's signal when there is one and
\* core's own otherwise; with a signal of the caller's there is no timer,
\* and the timeout never aborts the call.
C20_TimerPolicy ==
    /\ call.timer # "none" => TimerCreated
    /\ call.acAborted => TimerCreated
    /\ IsSome(call.sent) =>
          LET f == call.final
          IN /\ TimerCreated <=>
                  (~IsSome(f.signal) /\ IsSome(f.timeout) /\ Get(f.timeout) # 0)
             /\ Get(call.sent).signal = SignalGiven(f)
             /\ IsSome(f.signal) =>
                  /\ Get(call.sent).signal = f.signal
                  /\ call.timer = "none" /\ ~call.acAborted
             /\ (InFlight /\ TimerCreated) => call.timer \in {"armed", "fired"}

C20_Witness ==
    /\ call.cfg.timeout = None
    /\ call.final.timeout = Some(50)
    /\ TimerCreated
    /\ call.acAborted
    /\ Done
    /\ call.timer = "cleared"
    /\ call.outcome = Rejected(TimeoutError(50))

\* --------------------------------------------------------- the decoding
DeclaresJson(r) == IsSome(r.ct) /\ includesJson(Get(r.ct))

\* r.json() or r.text() rejects for the response r
DecodeFails(r) ==
    /\ r.status \notin {204, 205}
    /\ \/ ~r.streamOk
       \/ DeclaresJson(r) /\ r.body # "{\"id\":1}" /\ r.body # "{\"error\":\"missing\"}"

\* the normalized response of a response whose body failed to decode
DegradedResponse(r) ==
    [kind |-> "object", status |-> Some(r.status),
     data |-> Some(<<IF DeclaresJson(r) THEN "<null>" ELSE "">>),
     headers |-> responseHeaders(r), prim |-> ""]

\* C21: a response whose body fails to decode is normalized with the data
\* null when its content type declares JSON and the empty string otherwise;
\* the call goes on as its status says: for a 2xx status the response
\* success chain is run on that response and the failure chain is not run,
\* for another status the status error carrying that response is handed to
\* the failure chain.
C21_DecodeFailureDegrades ==
    (IsSome(call.r) /\ DecodeFails(Get(call.r)) /\ call.pc # "decode") =>
        LET r == Get(call.r)
            ok == Trace("res", "runFulfilled")
            ko == Trace("res", "runRejected")
        IN IF Success(r.status)
           THEN /\ Len(ok) = 1 /\ ok[1].in = Some(DegradedResponse(r))
                /\ Len(ko) = 0
                /\ call.outcome.kind # "rejected"
           ELSE /\ Len(ok) = 0
                /\ Len(ko) = 1
                /\ Get(ko[1].in).status = Some(r.status)
                /\ Get(ko[1].in).response = Some(DegradedResponse(r))
                /\ Get(ko[1].in).message =
                      "Request failed with status code " \o ToString(r.status)

C21_Witness ==
    /\ Done
    /\ Get(call.r) = TransportResponse(200, Some("application/json"), "oops", TRUE)
    /\ \E k \in DOMAIN res : hasRejected(res[k])
    /\ ~FailureHookRan
    /\ call.outcome = Resolved(DataValue(<<"<null>">>))

\* ------------------------------------------- registrations of two callbacks
\* C22: a failure callback registered on the request chain is never
\* invoked: of the request chain only success callbacks are run, every
\* failure callback that is run is one of the response chain, and the
\* failure of a request hook is handed to the response chain.
C22_RequestFailureCallbacksUnused ==
    /\ \A k \in DOMAIN call.log :
          /\ call.log[k].chain = "req" =>
                call.log[k].op \in {"runFulfilled", "onFulfilled",
                                    "runFulfilled.return", "runFulfilled.throw"}
          /\ call.log[k].op \in {"runRejected", "onRejected", "runRejected.return",
                                  "runRejected.throw"} => call.log[k].chain = "res"
    /\ (RequestHookFailed /\ call.pc # "reqF") => Len(Trace("res", "runRejected")) = 1
    /\ (Done /\ call.outcome.kind = "resolved" /\ Len(Trace("res", "runRejected")) = 1) =>
          Len(Trace("res", "runRejected.return")) = 1

C22_Witness ==
    /\ Done
    /\ req = <<Handler("throw", "resp")>>
    /\ RequestHookFailed
    /\ Len(Trace("res", "onRejected")) = 1
    /\ call.outcome = Resolved(Prim("fallback"))

\* the response success hook that failed for this call
FailedSuccessHook == Threw("res", "onFulfilled")

\* C23: when a response success hook fails (the transport's response was
\* 2xx), the structured error built from its failure is handed to the
\* failure chain of the response chain, which starts at the first
\* registration: no slot with a failure callback is passed over, be it
\* before the hook that failed or that hook's own; when a failure callback
\* returns, the call resolves.
C23_SuccessHookFailureRecovered ==
    (Len(FailedSuccessHook) > 0 /\ call.pc # "resF") =>
        LET hookError == Get(FailedSuccessHook[1].threw)
            run == Trace("res", "runRejected")
            t == Trace("res", "onRejected")
        IN /\ IsSome(call.r) /\ Success(Get(call.r).status)
           /\ Len(run) = 1
           /\ run[1].in = Some([isAxiosError |-> TRUE, name |-> "Error",
                                 message |-> hookError.message, status |-> None,
                                 response |-> None, config |-> TRUE])
           /\ Len(t) > 0 =>
                /\ t[1].in = run[1].in
                /\ \A k \in 1..t[1].id : ~hasRejected(res[k])
           /\ (Done /\ Len(Trace("res", "runRejected.return")) = 1) =>
                call.outcome.kind = "resolved"
           /\ (Done /\ Len(t) = 0) =>
                \A k \in 1..(FailedSuccessHook[1].id + 1) : ~hasRejected(res[k])

C23_Witness ==
    LET t == Trace("res", "onRejected")
    IN /\ Done
       /\ IsSome(call.r) /\ Get(call.r).status = 200
       /\ res = <<Handler("none", "rethrow"), Handler("throw", "prim")>>
       /\ Len(FailedSuccessHook) = 1 /\ FailedSuccessHook[1].id = 1
       /\ Len(t) = 2 /\ t[1].id = 0 /\ t[2].id = 1
       /\ call.outcome = Resolved(Prim("fallback"))

====
